---- MODULE Spec2Model ----
(***************************************************************************)
(* Grid Composition Engine of Forge (src/src/lib/grid.ts).                 *)
(*                                                                         *)
(* Two specifications share the module:                                    *)
(*   SpecLayout  the pure layout functions calculateActualDimensions and   *)
(*               calculateCellPositions applied to bounded inputs;         *)
(*   Spec        one grid request built by buildGrid (raster backend) or   *)
(*               buildGridSvg (vector backend), one loop iteration per     *)
(*               step.                                                     *)
(*                                                                         *)
(* All lengths are integers (pixels).  The SVG backend divides border      *)
(* widths and centering offsets by two without rounding, so the geometry   *)
(* of SVG elements is kept in half pixels where needed (x2, y2, rx2).      *)
(***************************************************************************)
EXTENDS Integers, Sequences, FiniteSets

VARIABLES
    options,            \* GridOptions of the request / of the layout call
    images,             \* GridImage[] of the request, in input order; in
                        \* SpecBuilder the selectedImages of the grid builder
    call,               \* SpecLayout, SpecFit, SpecText: the function call and its result;
                        \* SpecConcurrent: the two buildGrid invocations in progress
    pc,                 \* Spec: position of the build
    sortedImages,       \* buildGrid/buildGridSvg: images sorted by order
    actualDimensions,   \* result of calculateActualDimensions in the build
    positions,          \* result of calculateCellPositions in the build
    canvas,             \* buildGrid: the base canvas (sharp create)
    i,                  \* loop index of the build (0-based)
    imageComposites,    \* buildGrid: composite operations of the cell images
    borderComposites,   \* buildGrid: composite operations of the borders
    allComposites,      \* buildGrid: the list handed to canvas.composite
    svg,                \* buildGridSvg: the elements appended to the document
    route               \* SpecRoute: the request of the grid route and its response

vars == <<options, images, call, pc, sortedImages, actualDimensions, positions,
          canvas, i, imageComposites, borderComposites, allComposites, svg,
          route>>

buildVars == <<pc, sortedImages, actualDimensions, positions, canvas, i,
               imageComposites, borderComposites, allComposites, svg>>

-----------------------------------------------------------------------------
(* Bounds of the model *)

MaxCols == 2
MaxRows == 2
MaxWidth == 6
MaxHeight == 7
MaxPadding == 2
MaxBorder == 1
MaxCount == 5
MaxImages == 4
MaxOrder == 1
MaxSource == 4
MaxCell == 4
MaxCanvas == 3
MaxLibrary == 5
MaxPairImages == 2

(* Defaults of the grid builder: 1080 x 1080 canvas, padding 20 *)
DefaultSize == 1080
DefaultPadding == 20

-----------------------------------------------------------------------------
(* Arithmetic of the source *)

Max(a, b) == IF a >= b THEN a ELSE b

Min(a, b) == IF a <= b THEN a ELSE b

\* Math.floor(a / b) for integers a and b > 0
MathFloor(a, b) == a \div b

\* Math.ceil(a / b) for integers a and b > 0
MathCeil(a, b) == -((-a) \div b)

\* Math.round(a / b) for integers a and b > 0: the nearest integer, halves up
MathRound(a, b) == (2 * a + b) \div (2 * b)

-----------------------------------------------------------------------------
(* Layout Calculator *)

calculateActualRows(imageCount, cols) == MathCeil(imageCount, cols)

\* The mutant derives the cell height from the rows actually needed.
calculateActualDimensions_CellHeightFromActualRows(o, imageCount) ==
    LET actualRows == calculateActualRows(imageCount, o.cols)
        availableHeight == o.height - o.padding * (actualRows + 1)
                             - o.borderWidth * actualRows * 2
        cellHeight == MathFloor(availableHeight, actualRows)
        actualHeight == o.padding * (actualRows + 1)
                          + o.borderWidth * actualRows * 2
                          + cellHeight * actualRows
    IN  [width |-> o.width, height |-> actualHeight,
         rows |-> actualRows, cols |-> o.cols]

\* The mutant leaves the borders out of the final height.
calculateActualDimensions_HeightWithoutBorder(o, imageCount) ==
    LET actualRows == calculateActualRows(imageCount, o.cols)
        cellHeight ==
            MathFloor(o.height - o.padding * (o.rows + 1)
                        - o.borderWidth * o.rows * 2, o.rows)
        actualHeight == o.padding * (actualRows + 1) + cellHeight * actualRows
    IN  [width |-> o.width, height |-> actualHeight,
         rows |-> actualRows, cols |-> o.cols]

calculateActualDimensions(o, imageCount) ==
    LET actualRows == calculateActualRows(imageCount, o.cols)
        originalRows == o.rows
        totalPaddingYOriginal == o.padding * (originalRows + 1)
        totalBorderYOriginal == o.borderWidth * originalRows * 2
        availableHeightOriginal ==
            o.height - totalPaddingYOriginal - totalBorderYOriginal
        cellHeight == MathFloor(availableHeightOriginal, originalRows)
        totalPaddingY == o.padding * (actualRows + 1)
        totalBorderY == o.borderWidth * actualRows * 2
        actualHeight == totalPaddingY + totalBorderY + cellHeight * actualRows
    IN  [width |-> o.width, height |-> actualHeight,
         rows |-> actualRows, cols |-> o.cols]

\* The mutant also skips the cells of the last row.
CellLoop_SkipLastRow(o, imageCount, finalCellWidth, finalCellHeight, stepX, stepY) ==
    LET actualRows == calculateActualRows(imageCount, o.cols)
        used == SelectSeq([k \in 1..imageCount |-> k - 1],
                          LAMBDA idx : MathFloor(idx, o.cols) < actualRows - 1)
        cell(idx) ==
            [x |-> o.padding + o.borderWidth + (idx % o.cols) * stepX,
             y |-> o.padding + o.borderWidth + MathFloor(idx, o.cols) * stepY,
             width |-> finalCellWidth, height |-> finalCellHeight]
    IN  [k \in 1..Len(used) |-> cell(used[k])]

\* The cells of calculateCellPositions for a given (already clamped or not)
\* cell size: the loop of lines 98-115.
CellLoop(o, imageCount, finalCellWidth, finalCellHeight, stepX, stepY) ==
    LET actualRows == calculateActualRows(imageCount, o.cols)
        used == SelectSeq([k \in 1..imageCount |-> k - 1],
                          LAMBDA idx : MathFloor(idx, o.cols) < actualRows)
        cell(idx) ==
            LET row == MathFloor(idx, o.cols)
                col == idx % o.cols
                x == o.padding + o.borderWidth + col * stepX
                y == o.padding + o.borderWidth + row * stepY
            IN  [x |-> MathRound(x, 1), y |-> MathRound(y, 1),
                 width |-> finalCellWidth, height |-> finalCellHeight]
    IN  [k \in 1..Len(used) |-> cell(used[k])]

\* The mutant leaves out the minimum cell size of one pixel.
calculateCellPositions_NoMinimum(o, imageCount) ==
    LET cellWidth ==
            MathFloor(o.width - o.padding * (o.cols + 1)
                        - o.borderWidth * o.cols * 2, o.cols)
        cellHeight ==
            MathFloor(o.height - o.padding * (o.rows + 1)
                        - o.borderWidth * o.rows * 2, o.rows)
    IN  CellLoop(o, imageCount, cellWidth, cellHeight,
                 cellWidth + o.borderWidth * 2 + o.padding,
                 cellHeight + o.borderWidth * 2 + o.padding)

\* The mutant steps from cell to cell without the border widths.
calculateCellPositions_StepWithoutBorder(o, imageCount) ==
    LET cellWidth ==
            MathFloor(o.width - o.padding * (o.cols + 1)
                        - o.borderWidth * o.cols * 2, o.cols)
        cellHeight ==
            MathFloor(o.height - o.padding * (o.rows + 1)
                        - o.borderWidth * o.rows * 2, o.rows)
        finalCellWidth == Max(1, cellWidth)
        finalCellHeight == Max(1, cellHeight)
    IN  CellLoop(o, imageCount, finalCellWidth, finalCellHeight,
                 finalCellWidth + o.padding, finalCellHeight + o.padding)

calculateCellPositions(o, imageCount) ==
    LET totalPaddingX == o.padding * (o.cols + 1)
        totalBorderX == o.borderWidth * o.cols * 2
        availableWidth == o.width - totalPaddingX - totalBorderX
        cellWidth == MathFloor(availableWidth, o.cols)
        originalRows == o.rows
        totalPaddingYOriginal == o.padding * (originalRows + 1)
        totalBorderYOriginal == o.borderWidth * originalRows * 2
        availableHeightOriginal ==
            o.height - totalPaddingYOriginal - totalBorderYOriginal
        cellHeight == MathFloor(availableHeightOriginal, originalRows)
        finalCellWidth == Max(1, cellWidth)
        finalCellHeight == Max(1, cellHeight)
    IN  CellLoop(o, imageCount, finalCellWidth, finalCellHeight,
                 finalCellWidth + o.borderWidth * 2 + o.padding,
                 finalCellHeight + o.borderWidth * 2 + o.padding)

-----------------------------------------------------------------------------
(* Inputs *)

Sizes(max) == (1..max) \cup {DefaultSize}

Paddings == (0..MaxPadding) \cup {DefaultPadding}

\* The fields the layout functions do not read keep the builder's defaults.
LayoutOptions ==
    [rows : 1..MaxRows, cols : 1..MaxCols,
     width : Sizes(MaxWidth), height : Sizes(MaxHeight),
     padding : Paddings, borderWidth : 0..MaxBorder,
     backgroundColor : {"#1a1a1a"}, borderColor : {"#ffffff"},
     cornerRadius : {0}, imageFit : {"cover"}]

NoDimensions == [width |-> 0, height |-> 0, rows |-> 0, cols |-> 0]

NoCall == [fn |-> "none", imageCount |-> 0, dimensions |-> NoDimensions,
           cells |-> <<>>]

NoCanvas == [width |-> 0, height |-> 0, background |-> "none"]

NoResponse == [status |-> 0, cells |-> 0]

\* No request of the route is in progress.
NoRoute == [entry |-> "none", outputFormat |-> "none", options |-> [null |-> TRUE],
            textOverlays |-> <<>>, loaded |-> 0, textSvg |-> <<>>,
            encoded |-> "none", response |-> NoResponse]

BuildIdle ==
    /\ pc = "ready"
    /\ sortedImages = <<>>
    /\ actualDimensions = NoDimensions
    /\ positions = <<>>
    /\ canvas = NoCanvas
    /\ i = 0
    /\ imageComposites = <<>>
    /\ borderComposites = <<>>
    /\ allComposites = <<>>
    /\ svg = <<>>

-----------------------------------------------------------------------------
(* SpecLayout: the layout functions applied to bounded inputs *)

LayoutInit ==
    /\ options \in LayoutOptions
    /\ images = <<>>
    /\ call = NoCall
    /\ BuildIdle
    /\ route = NoRoute

CallActualDimensions ==
    \E n \in 1..MaxCount :
        /\ call' = [fn |-> "calculateActualDimensions", imageCount |-> n,
                    dimensions |-> calculateActualDimensions(options, n),
                    cells |-> <<>>]
        /\ UNCHANGED <<route, options, images, buildVars>>

CallCellPositions ==
    \E n \in 1..MaxCount :
        /\ call' = [fn |-> "calculateCellPositions", imageCount |-> n,
                    dimensions |-> NoDimensions,
                    cells |-> calculateCellPositions(options, n)]
        /\ UNCHANGED <<route, options, images, buildVars>>

LayoutNext == CallActualDimensions \/ CallCellPositions

SpecLayout == LayoutInit /\ [][LayoutNext]_vars

-----------------------------------------------------------------------------
(* Helpers of the two backends *)

Null == [null |-> TRUE]

\* hexToRgb on the colours of the model: a string of six hex digits parses,
\* anything else ("transparent") gives null.
hexToRgb(hex) ==
    CASE hex = "#1a1a1a" -> [r |-> 26, g |-> 26, b |-> 26]
      [] hex = "#ffffff" -> [r |-> 255, g |-> 255, b |-> 255]
      [] OTHER -> Null

\* The decoded sizes of the sources of a build: 600x200, 200x600 and 3x5,
\* assigned by image id.
SourceSizes ==
    << [width |-> 600, height |-> 200],
       [width |-> 200, height |-> 600],
       [width |-> 3, height |-> 5] >>

SourceOf(id) == SourceSizes[((id - 1) % Len(SourceSizes)) + 1]

\* sharp(buffer).metadata(): the decoded size of a source image
metadata(image) == [width |-> image.width, height |-> image.height]

RECURSIVE InsertByOrder(_, _)
\* Insert image x into the sorted list s behind every image whose order is
\* not greater (the comparator gives 0 for ties; Array.prototype.sort is stable).
InsertByOrder(s, x) ==
    IF s = <<>> THEN <<x>>
    ELSE IF Head(s).order - x.order <= 0
         THEN <<Head(s)>> \o InsertByOrder(Tail(s), x)
         ELSE <<x>> \o s

RECURSIVE SortedPrefix(_, _)
SortedPrefix(s, n) ==
    IF n = 0 THEN <<>> ELSE InsertByOrder(SortedPrefix(s, n - 1), s[n])

\* The mutant keeps the input order.
sortByOrder_Unsorted(imgs) == imgs

\* [...images].sort((a, b) => a.order - b.order)
sortByOrder(imgs) == SortedPrefix(imgs, Len(imgs))

\* The mutant keeps the configured height in the adjusted options.
adjustOptions_KeepHeight(o, dims) == [o EXCEPT !.rows = dims.rows]

\* { ...options, rows: actualDimensions.rows, height: canvasHeight }
adjustOptions(o, dims) == [o EXCEPT !.rows = dims.rows, !.height = dims.height]

\* The mutant decodes every buffer.
decodes_AnyBuffer(image) == TRUE

\* sharp(buffer) resolves for an image it can decode and rejects otherwise.
decodes(image) == ~image.corrupt

\* The mutant scales by the larger of the two ratios, as cover would.
containFit_ScaleByMax(image, width, height) ==
    LET m == metadata(image)
        imgWidth == IF m.width = 0 THEN 1 ELSE m.width
        imgHeight == IF m.height = 0 THEN 1 ELSE m.height
        byWidth == width * imgHeight >= height * imgWidth
        newWidth == IF byWidth THEN MathRound(imgWidth * width, imgWidth)
                               ELSE MathRound(imgWidth * height, imgHeight)
        newHeight == IF byWidth THEN MathRound(imgHeight * width, imgWidth)
                                ELSE MathRound(imgHeight * height, imgHeight)
    IN  [newWidth |-> newWidth, newHeight |-> newHeight,
         offsetX2 |-> width - newWidth, offsetY2 |-> height - newHeight]

\* The scaled size and the centering offsets of the contain policy, the
\* offsets in half pixels: scale = min(width/imgWidth, height/imgHeight).
containFit(image, width, height) ==
    LET m == metadata(image)
        imgWidth == IF m.width = 0 THEN 1 ELSE m.width
        imgHeight == IF m.height = 0 THEN 1 ELSE m.height
        byWidth == width * imgHeight <= height * imgWidth
        newWidth == IF byWidth THEN MathRound(imgWidth * width, imgWidth)
                               ELSE MathRound(imgWidth * height, imgHeight)
        newHeight == IF byWidth THEN MathRound(imgHeight * width, imgWidth)
                                ELSE MathRound(imgHeight * height, imgHeight)
    IN  [newWidth |-> newWidth, newHeight |-> newHeight,
         offsetX2 |-> width - newWidth, offsetY2 |-> height - newHeight]

\* sharp's resize(newWidth, newHeight) of the contain branch takes positive
\* integers only and throws for a scaled size that rounds to 0.
resizable(image, width, height, imageFit) ==
    imageFit = "contain" =>
        LET f == containFit(image, width, height)
        IN  f.newWidth >= 1 /\ f.newHeight >= 1

\* The fitting of an image into a cell throws: sharp cannot decode the
\* buffer or refuses the resize.
fitThrows(image, position, imageFit) ==
    \/ ~decodes(image)
    \/ ~resizable(image, MathRound(position.width, 1),
                  MathRound(position.height, 1), imageFit)

\* The mutant fits cover and fill inside the cell as contain does.
applyRoundedCorners_CoverFitsInside(image, width, height, radius, imageFit) ==
    LET f == containFit(image, width, height)
    IN  [image |-> image.id, width |-> width, height |-> height,
         innerLeft |-> MathRound(width - f.newWidth, 2),
         innerTop |-> MathRound(height - f.newHeight, 2),
         innerWidth |-> f.newWidth, innerHeight |-> f.newHeight,
         maskRadius |-> IF radius <= 0 THEN 0 ELSE radius]

\* applyRoundedCorners: the fitted cell image, exactly width x height; inner*
\* is the rectangle of the cell the source pixels are drawn into.
applyRoundedCorners(image, width, height, radius, imageFit) ==
    LET f == containFit(image, width, height)
    IN  [image |-> image.id, width |-> width, height |-> height,
         innerLeft |-> IF imageFit = "contain"
                       THEN MathRound(width - f.newWidth, 2) ELSE 0,
         innerTop |-> IF imageFit = "contain"
                      THEN MathRound(height - f.newHeight, 2) ELSE 0,
         innerWidth |-> IF imageFit = "contain" THEN f.newWidth ELSE width,
         innerHeight |-> IF imageFit = "contain" THEN f.newHeight ELSE height,
         maskRadius |-> IF radius <= 0 THEN 0 ELSE radius]

\* The mutant adds the border width to the cell size only once.
createCellBorder_BorderOnOneSide(cellWidth, cellHeight, borderWidth, borderColor, cornerRadius) ==
    IF borderWidth <= 0 THEN [null |-> TRUE]
    ELSE [width |-> cellWidth + borderWidth, height |-> cellHeight + borderWidth,
          rectX2 |-> borderWidth, rectY2 |-> borderWidth,
          rectWidth |-> cellWidth, rectHeight |-> cellHeight,
          rx |-> cornerRadius, stroke |-> borderColor,
          strokeWidth |-> borderWidth]

\* createCellBorder: null without a border, else the stroke-only overlay of
\* size (cell + 2*borderWidth); the stroke rect is kept in half pixels.
createCellBorder(cellWidth, cellHeight, borderWidth, borderColor, cornerRadius) ==
    IF borderWidth <= 0 THEN Null
    ELSE LET totalWidth == cellWidth + borderWidth * 2
             totalHeight == cellHeight + borderWidth * 2
         IN  [width |-> totalWidth, height |-> totalHeight,
              rectX2 |-> borderWidth, rectY2 |-> borderWidth,
              rectWidth |-> totalWidth - borderWidth,
              rectHeight |-> totalHeight - borderWidth,
              rx |-> cornerRadius, stroke |-> borderColor,
              strokeWidth |-> borderWidth]

\* The mutant hands the borders to the canvas before the images.
composeAll_BordersFirst(imgs, borders) == borders \o imgs

\* [...imageComposites, ...borderComposites]
composeAll(imgs, borders) == imgs \o borders

-----------------------------------------------------------------------------
(* Inputs of a build *)

\* Canvas, spacing and framing of a request: the builder's defaults; a
\* bordered, rounded grid without padding on a transparent background; a
\* small canvas whose height does not divide by the rows; and a canvas
\* smaller than its padding.
Styles ==
    { [width |-> DefaultSize, height |-> DefaultSize, padding |-> DefaultPadding,
       borderWidth |-> 0, cornerRadius |-> 0, backgroundColor |-> "#1a1a1a"],
      [width |-> DefaultSize, height |-> DefaultSize, padding |-> 0,
       borderWidth |-> 3, cornerRadius |-> 10, backgroundColor |-> "transparent"],
      [width |-> 40, height |-> 31, padding |-> 2,
       borderWidth |-> 1, cornerRadius |-> 4, backgroundColor |-> "#ffffff"],
      [width |-> 5, height |-> 1, padding |-> 2,
       borderWidth |-> 0, cornerRadius |-> 0, backgroundColor |-> "#1a1a1a"] }

BuildOptions ==
    { [rows |-> r, cols |-> c, width |-> st.width, height |-> st.height,
       padding |-> st.padding, backgroundColor |-> st.backgroundColor,
       borderWidth |-> st.borderWidth, borderColor |-> "#ffffff",
       cornerRadius |-> st.cornerRadius, imageFit |-> fit] :
         r \in 1..MaxRows, c \in 1..MaxCols, st \in Styles,
         fit \in {"cover", "contain", "fill"} }

\* The images of a request: the id is the place in the input array, width
\* and height the size sharp decodes; corrupt marks a buffer sharp cannot
\* decode (none in a build of Spec).
ImageLists ==
    UNION { { [k \in 1..n |-> [id |-> k, order |-> ord[k],
                             width |-> SourceOf(k).width,
                             height |-> SourceOf(k).height,
                             corrupt |-> FALSE]] :
                ord \in [1..n -> 0..MaxOrder] } : n \in 1..MaxImages }

-----------------------------------------------------------------------------
(* Spec: one request built by buildGrid or by buildGridSvg *)

Init ==
    /\ options \in BuildOptions
    /\ images \in ImageLists
    /\ call = NoCall
    /\ BuildIdle
    /\ route = NoRoute

\* sharp({ create: { width, height, ... } }) takes positive integers only.
creatable(dims) == dims.width >= 1 /\ dims.height >= 1

\* buildGrid up to its loop: sort, dimensions, positions, base canvas; it
\* throws when sharp refuses the size of the canvas.
BuildGridBegin ==
    /\ pc = "ready"
    /\ LET sorted == sortByOrder(images)
           dims == calculateActualDimensions(options, Len(sorted))
           adjustedOptions == adjustOptions(options, dims)
           bgRgb == hexToRgb(options.backgroundColor)
           background ==
               IF bgRgb # Null
               THEN [r |-> bgRgb.r, g |-> bgRgb.g, b |-> bgRgb.b, alpha |-> 1]
               ELSE [r |-> 255, g |-> 255, b |-> 255, alpha |-> 1]
       IN  /\ sortedImages' = sorted
           /\ actualDimensions' = dims
           /\ positions' = calculateCellPositions(adjustedOptions, Len(sorted))
           /\ canvas' = IF creatable(dims)
                        THEN [width |-> dims.width, height |-> dims.height,
                              background |-> background]
                        ELSE canvas
           /\ pc' = IF creatable(dims) THEN "buildGrid" ELSE "failed"
    /\ i' = 0
    /\ UNCHANGED <<route, options, images, call, imageComposites, borderComposites,
                   allComposites, svg>>

\* One iteration of buildGrid's loop.
BuildGridCell ==
    /\ pc = "buildGrid"
    /\ i < Len(sortedImages)
    /\ IF /\ i + 1 <= Len(positions)
          /\ fitThrows(sortedImages[i + 1], positions[i + 1], options.imageFit)
       THEN \* sharp rejects the image: buildGrid throws
            /\ pc' = "failed"
            /\ UNCHANGED <<i, imageComposites, borderComposites>>
       ELSE /\ pc' = pc
            /\ i' = i + 1
            /\ IF i + 1 > Len(positions)
               THEN UNCHANGED <<imageComposites, borderComposites>>
               ELSE LET image == sortedImages[i + 1]
                        position == positions[i + 1]
                        posX == MathRound(position.x, 1)
                        posY == MathRound(position.y, 1)
                        cellWidth == MathRound(position.width, 1)
                        cellHeight == MathRound(position.height, 1)
                        processedImage ==
                            applyRoundedCorners(image, cellWidth, cellHeight,
                                                options.cornerRadius, options.imageFit)
                        border ==
                            createCellBorder(cellWidth, cellHeight, options.borderWidth,
                                             options.borderColor, options.cornerRadius)
                    IN  /\ imageComposites' =
                               Append(imageComposites,
                                      [kind |-> "image", input |-> processedImage,
                                       left |-> posX, top |-> posY])
                        /\ borderComposites' =
                               IF options.borderWidth > 0 /\ border # Null
                               THEN Append(borderComposites,
                                           [kind |-> "border", input |-> border,
                                            left |-> posX - options.borderWidth,
                                            top |-> posY - options.borderWidth])
                               ELSE borderComposites
    /\ UNCHANGED <<route, options, images, call, sortedImages, actualDimensions,
                   positions, canvas, allComposites, svg>>

\* After the loop: images first, then borders, composited onto the canvas.
BuildGridComposite ==
    /\ pc = "buildGrid"
    /\ i >= Len(sortedImages)
    /\ allComposites' = composeAll(imageComposites, borderComposites)
    /\ pc' = "rasterDone"
    /\ UNCHANGED <<route, options, images, call, sortedImages, actualDimensions,
                   positions, canvas, i, imageComposites, borderComposites, svg>>

(* Text overlays *)

RECURSIVE textElements(_, _, _)

\* Relative positions as fractions: quarters from -1/4 to 5/4.
Positions == { [num |-> n, den |-> 4] : n \in -1..5 }

Shadows ==
    { Null,
      [color |-> "#1a1a1a", blur |-> 4, offsetX |-> 2, offsetY |-> 2],
      [color |-> "black", blur |-> 0, offsetX |-> -1, offsetY |-> 3] }

Strokes ==
    { Null, [color |-> "#ffffff", width |-> 0], [color |-> "#ffffff", width |-> 2] }

TextOverlays ==
    [text : {"Forge"}, x : Positions, y : Positions, fontFamily : {"Arial"},
     fontSize : {48}, fontWeight : {"bold"}, color : {"#ffffff"},
     align : {"left", "center", "right"}, shadow : Shadows, stroke : Strokes]

\* The mutant truncates where the source rounds.
absPosition_Floor(rel, size) == MathFloor(rel.num * size, rel.den)

\* Math.round(x * width), Math.round(y * height)
absPosition(rel, size) == MathRound(rel.num * size, rel.den)

\* text-anchor of an alignment: 'start' unless center or right
textAnchorOf(align) ==
    IF align = "center" THEN "middle"
    ELSE IF align = "right" THEN "end" ELSE "start"

\* The mutant emits the fill text first.
textLayers_FillFirst(shadowText, strokeText, mainText) ==
    mainText \o shadowText \o strokeText

\* textElements += shadow; textElements += stroke; textElements += main
textLayers(shadowText, strokeText, mainText) ==
    shadowText \o strokeText \o mainText

\* createTextSvgElement: the <text> elements of one overlay, in document
\* order.  An attribute an element does not carry is "" (0 for the stroke
\* width); halfAlpha tells that the fill is written rgba(r,g,b,0.5).
createTextSvgElement(overlay, width, height) ==
    LET absX == absPosition(overlay.x, width)
        absY == absPosition(overlay.y, height)
        textAnchor == textAnchorOf(overlay.align)
        alignedX == absX
        shadow == overlay.shadow
        stroke == overlay.stroke
        shadowText ==
            IF shadow # Null
            THEN << [tag |-> "text", fontSize |-> overlay.fontSize, x |-> alignedX + shadow.offsetX,
                     y |-> absY + shadow.offsetY,
                     fill |-> shadow.color,
                     halfAlpha |-> hexToRgb(shadow.color) # Null,
                     stroke |-> "", strokeWidth |-> 0,
                     textAnchor |-> textAnchor,
                     filter |-> "url(#shadow-blur)"] >>
            ELSE <<>>
        strokeText ==
            IF stroke # Null /\ stroke.width > 0
            THEN << [tag |-> "text", fontSize |-> overlay.fontSize, x |-> alignedX, y |-> absY,
                     fill |-> "none", halfAlpha |-> FALSE,
                     stroke |-> stroke.color, strokeWidth |-> stroke.width,
                     textAnchor |-> textAnchor, filter |-> ""] >>
            ELSE <<>>
        mainText ==
            << [tag |-> "text", fontSize |-> overlay.fontSize, x |-> alignedX, y |-> absY,
                fill |-> overlay.color, halfAlpha |-> FALSE,
                stroke |-> "", strokeWidth |-> 0,
                textAnchor |-> textAnchor, filter |-> ""] >>
    IN  textLayers(shadowText, strokeText, mainText)

\* overlays.map(createTextSvgElement).join: the elements of every overlay
textElements(overlays, width, height) ==
    IF overlays = <<>> THEN <<>>
    ELSE createTextSvgElement(Head(overlays), width, height)
         \o textElements(Tail(overlays), width, height)

\* createTextOverlaySvg: the document renderTextOverlays composites over the
\* grid: the root, <defs> with the shadow-blur filter, the text elements.
createTextOverlaySvg(overlays, width, height) ==
    << [tag |-> "svg", width |-> width, height |-> height],
       [tag |-> "defs"],
       [tag |-> "filter", id |-> "shadow-blur", stdDeviation |-> 2],
       [tag |-> "/defs"] >>
    \o textElements(overlays, width, height)
    \o << [tag |-> "/svg"] >>

\* The mutant emits the clipPath whatever the corner radius is.
svgClipPath_Always(clipId, posX, posY, cellWidth, cellHeight, cornerRadius) ==
    << [tag |-> "clipPath", id |-> clipId, x |-> posX, y |-> posY,
        width |-> cellWidth, height |-> cellHeight,
        rx |-> cornerRadius, ry |-> cornerRadius] >>

\* <clipPath id="clip-i"><rect .../></clipPath>, only for rounded corners
svgClipPath(clipId, posX, posY, cellWidth, cellHeight, cornerRadius) ==
    IF cornerRadius > 0
    THEN << [tag |-> "clipPath", id |-> clipId, x |-> posX, y |-> posY,
             width |-> cellWidth, height |-> cellHeight,
             rx |-> cornerRadius, ry |-> cornerRadius] >>
    ELSE <<>>

\* clip-path="url(#clip-i)" of the cell's image; -1 is no attribute
svgClipAttr(clipId, cornerRadius) == IF cornerRadius > 0 THEN clipId ELSE -1

\* The <image> element of a cell: the scaled source centred in the cell
\* for contain, the whole cell otherwise; x and y in half pixels.
svgImage(image, posX, posY, cellWidth, cellHeight, imageFit, clipAttr) ==
    LET f == containFit(image, cellWidth, cellHeight)
    IN  IF imageFit = "contain"
        THEN [tag |-> "image", image |-> image.id,
              x2 |-> 2 * posX + f.offsetX2, y2 |-> 2 * posY + f.offsetY2,
              width |-> f.newWidth, height |-> f.newHeight, clip |-> clipAttr]
        ELSE [tag |-> "image", image |-> image.id,
              x2 |-> 2 * posX, y2 |-> 2 * posY,
              width |-> cellWidth, height |-> cellHeight, clip |-> clipAttr]

\* The mutant draws the border rect on the cell's own edge.
svgBorderRect_OnCellEdge(posX, posY, cellWidth, cellHeight, borderWidth, borderColor, cornerRadius) ==
    [tag |-> "rect", role |-> "border",
     x2 |-> 2 * posX, y2 |-> 2 * posY,
     width |-> cellWidth, height |-> cellHeight,
     rx2 |-> 2 * cornerRadius,
     stroke |-> borderColor, strokeWidth |-> borderWidth]

\* The stroked <rect> of a cell's border; x, y and rx in half pixels.
svgBorderRect(posX, posY, cellWidth, cellHeight, borderWidth, borderColor, cornerRadius) ==
    [tag |-> "rect", role |-> "border",
     x2 |-> 2 * posX - borderWidth, y2 |-> 2 * posY - borderWidth,
     width |-> cellWidth + borderWidth, height |-> cellHeight + borderWidth,
     rx2 |-> 2 * cornerRadius + borderWidth,
     stroke |-> borderColor, strokeWidth |-> borderWidth]

\* The mutant declares the configured height on the SVG root.
svgRoot_ConfiguredHeight(o, dims) ==
    [tag |-> "svg", width |-> dims.width, height |-> o.height]

\* <svg width="${canvasWidth}" height="${canvasHeight}" ...>
svgRoot(o, dims) == [tag |-> "svg", width |-> dims.width, height |-> dims.height]

\* buildGridSvg up to its loop: sort, dimensions, positions, the root tag,
\* the opening <defs> and the background rect.
BuildGridSvgBegin ==
    /\ pc = "ready"
    /\ LET sorted == sortByOrder(images)
           dims == calculateActualDimensions(options, Len(sorted))
           adjustedOptions == adjustOptions(options, dims)
       IN  /\ sortedImages' = sorted
           /\ actualDimensions' = dims
           /\ positions' = calculateCellPositions(adjustedOptions, Len(sorted))
           /\ svg' = << svgRoot(options, dims), [tag |-> "defs"] >>
                     \o (IF options.backgroundColor # ""
                            /\ options.backgroundColor # "transparent"
                         THEN << [tag |-> "rect", role |-> "background",
                                  x |-> 0, y |-> 0,
                                  width |-> dims.width, height |-> dims.height,
                                  fill |-> options.backgroundColor] >>
                         ELSE <<>>)
    /\ pc' = "buildGridSvg"
    /\ i' = 0
    /\ UNCHANGED <<route, options, images, call, canvas, imageComposites,
                   borderComposites, allComposites>>

\* One iteration of buildGridSvg's loop: clipPath, image, border rect.  The
\* x, y of images and borders and the border radius are in half pixels.
BuildGridSvgCell ==
    /\ pc = "buildGridSvg"
    /\ i < Len(sortedImages)
    /\ IF /\ i + 1 <= Len(positions)
          /\ fitThrows(sortedImages[i + 1], positions[i + 1], options.imageFit)
       THEN \* sharp rejects the image: buildGridSvg throws
            /\ pc' = "failed"
            /\ UNCHANGED <<i, svg>>
       ELSE /\ pc' = pc
            /\ i' = i + 1
            /\ IF i + 1 > Len(positions)
               THEN UNCHANGED svg
               ELSE LET image == sortedImages[i + 1]
                        position == positions[i + 1]
                        posX == MathRound(position.x, 1)
                        posY == MathRound(position.y, 1)
                        cellWidth == MathRound(position.width, 1)
                        cellHeight == MathRound(position.height, 1)
                        clipId == i
                        clipPath ==
                            svgClipPath(clipId, posX, posY, cellWidth,
                                        cellHeight, options.cornerRadius)
                        clipAttr == svgClipAttr(clipId, options.cornerRadius)
                        imageElement ==
                            svgImage(image, posX, posY, cellWidth, cellHeight,
                                     options.imageFit, clipAttr)
                        borderRect ==
                            IF options.borderWidth > 0
                            THEN << svgBorderRect(posX, posY, cellWidth, cellHeight,
                                                  options.borderWidth, options.borderColor,
                                                  options.cornerRadius) >>
                            ELSE <<>>
                    IN  svg' = svg \o clipPath \o <<imageElement>> \o borderRect
    /\ UNCHANGED <<route, options, images, call, sortedImages, actualDimensions,
                   positions, canvas, imageComposites, borderComposites,
                   allComposites>>

\* After the loop: </defs>, the text overlays of the request (none when
\* buildGridSvg is called without them), </svg>.
BuildGridSvgEnd ==
    /\ pc = "buildGridSvg"
    /\ i >= Len(sortedImages)
    /\ svg' = svg \o << [tag |-> "/defs"] >>
                  \o textElements(route.textOverlays, actualDimensions.width,
                                  actualDimensions.height)
                  \o << [tag |-> "/svg"] >>
    /\ pc' = "svgDone"
    /\ UNCHANGED <<route, options, images, call, sortedImages, actualDimensions,
                   positions, canvas, i, imageComposites, borderComposites,
                   allComposites>>

Next ==
    \/ BuildGridBegin
    \/ BuildGridCell
    \/ BuildGridComposite
    \/ BuildGridSvgBegin
    \/ BuildGridSvgCell
    \/ BuildGridSvgEnd

Spec == Init /\ [][Next]_vars

-----------------------------------------------------------------------------
(* SpecFit: one source image fitted into one cell by each backend *)

SourceDims == (1..MaxSource) \cup {200, 600}

CellDims == (1..MaxCell) \cup {300}

CellOrigins == { [x |-> 0, y |-> 0], [x |-> 20, y |-> 40] }

\* The fields the fitting code does not read keep the builder's defaults.
FitOptions ==
    [rows : {1}, cols : {1}, width : {DefaultSize}, height : {DefaultSize},
     padding : {DefaultPadding}, borderWidth : {0},
     backgroundColor : {"#1a1a1a"}, borderColor : {"#ffffff"},
     cornerRadius : {0}, imageFit : {"cover", "contain", "fill"}]

FitInit ==
    /\ options \in FitOptions
    /\ images \in { << [id |-> 1, order |-> 0, width |-> iw, height |-> ih] >> :
                       iw \in SourceDims, ih \in SourceDims }
    /\ call \in [fn : {"none"}, origin : CellOrigins,
                 width : CellDims, height : CellDims,
                 raster : {Null}, vector : {Null}, refused : {FALSE}]
    /\ BuildIdle
    /\ route = NoRoute

\* The raster backend fits the source: applyRoundedCorners.  The result
\* holds the size and offsets the code computes; refused tells that sharp
\* threw at the resize.
FitRaster ==
    /\ call' = [call EXCEPT
                   !.fn = "applyRoundedCorners",
                   !.refused = ~resizable(images[1], call.width, call.height,
                                          options.imageFit),
                   !.raster = applyRoundedCorners(images[1], call.width,
                                  call.height, options.cornerRadius,
                                  options.imageFit)]
    /\ UNCHANGED <<route, options, images, buildVars>>

\* The vector backend fits the source: the <image> of buildGridSvg.
FitSvg ==
    /\ call' = [call EXCEPT
                   !.fn = "buildGridSvg",
                   !.refused = ~resizable(images[1], call.width, call.height,
                                          options.imageFit),
                   !.vector = svgImage(images[1], call.origin.x, call.origin.y,
                                       call.width, call.height,
                                       options.imageFit, -1)]
    /\ UNCHANGED <<route, options, images, buildVars>>

FitNext == FitRaster \/ FitSvg

SpecFit == FitInit /\ [][FitNext]_vars

-----------------------------------------------------------------------------
(* SpecText: createTextSvgElement applied to one overlay *)

CanvasWidths == (1..MaxCanvas) \cup {1000}

CanvasHeights == (1..MaxCanvas) \cup {500}

\* The fields createTextSvgElement does not read keep the builder's defaults.
TextOptions ==
    [rows : {1}, cols : {1}, width : {DefaultSize}, height : {DefaultSize},
     padding : {DefaultPadding}, borderWidth : {0},
     backgroundColor : {"#1a1a1a"}, borderColor : {"#ffffff"},
     cornerRadius : {0}, imageFit : {"cover"}]

TextInit ==
    /\ options \in TextOptions
    /\ images = <<>>
    /\ call \in [fn : {"none"}, overlay : TextOverlays,
                 width : CanvasWidths, height : CanvasHeights,
                 elements : {<<>>}]
    /\ BuildIdle
    /\ route = NoRoute

CallCreateTextSvgElement ==
    /\ call.fn = "none"
    /\ call' = [call EXCEPT
                   !.fn = "createTextSvgElement",
                   !.elements = createTextSvgElement(call.overlay, call.width,
                                                     call.height)]
    /\ UNCHANGED <<route, options, images, buildVars>>

TextNext == CallCreateTextSvgElement

SpecText == TextInit /\ [][TextNext]_vars

-----------------------------------------------------------------------------
(* SpecRoute: one request to the grid route, POST (export) or PUT (preview) *)

\* Canvas, spacing and framing of a request body: the builder's defaults, a
\* negative padding, and a small bordered grid.
RouteStyles ==
    { [width |-> DefaultSize, height |-> DefaultSize, padding |-> DefaultPadding,
       borderWidth |-> 0, cornerRadius |-> 0, backgroundColor |-> "#1a1a1a"],
      [width |-> 40, height |-> 31, padding |-> -2,
       borderWidth |-> 0, cornerRadius |-> 0, backgroundColor |-> "#1a1a1a"],
      [width |-> 40, height |-> 31, padding |-> 2,
       borderWidth |-> 1, cornerRadius |-> 4, backgroundColor |-> "#ffffff"] }

\* body.options: nothing but the route itself restricts it; cols may be 0.
RouteOptions ==
    { [rows |-> r, cols |-> c, width |-> st.width, height |-> st.height,
       padding |-> st.padding, backgroundColor |-> st.backgroundColor,
       borderWidth |-> st.borderWidth, borderColor |-> "#ffffff",
       cornerRadius |-> st.cornerRadius, imageFit |-> fit] :
         r \in 1..MaxRows, c \in 0..MaxCols, st \in RouteStyles,
         fit \in {"cover", "contain"} }

\* body.images with the uploaded files behind them: at most one file is not
\* a decodable image; the orders run against the input order.
RouteImages ==
    { [k \in 1..n |-> [id |-> k, order |-> n - k,
                       width |-> SourceOf(k).width,
                       height |-> SourceOf(k).height,
                       corrupt |-> (k = bad)]] :
        n \in 0..MaxImages, bad \in 0..MaxImages }

\* body.textOverlays: none, one plain overlay, or a plain one and one with
\* a shadow and a stroke.
RouteOverlay(align, shadow, stroke) ==
    [text |-> "Forge", x |-> [num |-> 2, den |-> 4], y |-> [num |-> 4, den |-> 4],
     fontFamily |-> "Arial", fontSize |-> 48, fontWeight |-> "bold",
     color |-> "#ffffff", align |-> align, shadow |-> shadow, stroke |-> stroke]

RouteOverlayLists ==
    { <<>>,
      << RouteOverlay("center", Null, Null) >>,
      << RouteOverlay("left", Null, Null),
         RouteOverlay("right",
                      [color |-> "#1a1a1a", blur |-> 4, offsetX |-> 2, offsetY |-> 2],
                      [color |-> "#ffffff", width |-> 2]) >> }

RouteInit ==
    /\ images \in RouteImages
    /\ options \in RouteOptions
    /\ \E e \in {"POST", "PUT"}, f \in {"png", "svg"},
          overlays \in RouteOverlayLists :
           route = [entry |-> e,
                    outputFormat |-> IF e = "PUT" THEN "png" ELSE f,
                    options |-> options, textOverlays |-> overlays,
                    loaded |-> 0, textSvg |-> <<>>, encoded |-> "none",
                    response |-> NoResponse]
    /\ call = NoCall
    /\ pc = "received"
    /\ sortedImages = <<>>
    /\ actualDimensions = NoDimensions
    /\ positions = <<>>
    /\ canvas = NoCanvas
    /\ i = 0
    /\ imageComposites = <<>>
    /\ borderComposites = <<>>
    /\ allComposites = <<>>
    /\ svg = <<>>

\* return NextResponse.json({ success: false, ... }, { status })
respondError(status) ==
    /\ route' = [route EXCEPT !.response = [status |-> status, cells |-> 0]]
    /\ pc' = "responded"

\* POST up to the loading of the images: the two 400 checks.
PostValidate ==
    /\ pc = "received"
    /\ route.entry = "POST"
    /\ IF Len(images) = 0
       THEN respondError(400)
       ELSE IF options.rows = 0 \/ options.cols = 0
            THEN respondError(400)
            ELSE pc' = "loading" /\ UNCHANGED route
    /\ UNCHANGED <<options, images, call, sortedImages, actualDimensions,
                   positions, canvas, i, imageComposites, borderComposites,
                   allComposites, svg>>

\* PUT up to the loading of the images: only the empty list is refused.
PutValidate ==
    /\ pc = "received"
    /\ route.entry = "PUT"
    /\ IF Len(images) = 0
       THEN respondError(400)
       ELSE pc' = "loading" /\ UNCHANGED route
    /\ UNCHANGED <<options, images, call, sortedImages, actualDimensions,
                   positions, canvas, i, imageComposites, borderComposites,
                   allComposites, svg>>

\* The options PUT builds with: sizes halved with Math.round.
previewOptions(o) ==
    [o EXCEPT !.width = MathRound(o.width, 2),
              !.height = MathRound(o.height, 2),
              !.padding = MathRound(o.padding, 2),
              !.borderWidth = MathRound(o.borderWidth, 2),
              !.cornerRadius = MathRound(o.cornerRadius, 2)]

\* The mutant never takes the vector branch.
usesSvgBackend_Never(r) == FALSE

\* if (outputFormat === 'svg') of POST; PUT has no such branch.
usesSvgBackend(r) == r.entry = "POST" /\ r.outputFormat = "svg"

\* The mutant resolves the overlays against the configured canvas.
routeActualDimensions_Configured(o, imgs) ==
    [width |-> o.width, height |-> o.height, rows |-> o.rows, cols |-> o.cols]

\* const actualDimensions = calculateActualDimensions(options, images.length)
routeActualDimensions(o, imgs) == calculateActualDimensions(o, Len(imgs))

\* The overlays PUT renders: font sizes halved with Math.round.
scaledTextOverlays(overlays) ==
    [k \in 1..Len(overlays) |->
        [overlays[k] EXCEPT !.fontSize = MathRound(overlays[k].fontSize, 2)]]

\* Promise.all over readFile: every file of the request is read; PUT then
\* derives its preview options and scales its overlays.
LoadImages ==
    /\ pc = "loading"
    /\ route' = [route EXCEPT
                    !.loaded = Len(images),
                    !.textOverlays =
                        IF route.entry = "PUT"
                        THEN scaledTextOverlays(route.textOverlays)
                        ELSE route.textOverlays]
    /\ options' = IF route.entry = "PUT" THEN previewOptions(options)
                                         ELSE options
    /\ pc' = "ready"
    /\ UNCHANGED <<images, call, sortedImages, actualDimensions, positions,
                   canvas, i, imageComposites, borderComposites,
                   allComposites, svg>>

\* await buildGrid(images, options): with cols = 0 the rows are Infinity and
\* the canvas height Infinity or NaN, which sharp's create refuses.
RouteBuildGrid ==
    /\ pc = "ready"
    /\ ~usesSvgBackend(route)
    /\ IF options.cols = 0
       THEN /\ pc' = "failed"
            /\ UNCHANGED <<route, options, images, call, sortedImages,
                           actualDimensions, positions, canvas, i,
                           imageComposites, borderComposites, allComposites,
                           svg>>
       ELSE BuildGridBegin

\* await buildGridSvg(images, options, textOverlays)
RouteBuildGridSvg ==
    /\ pc = "ready"
    /\ usesSvgBackend(route)
    /\ BuildGridSvgBegin

\* renderTextOverlays(gridBuffer, textOverlays, actualDimensions.width,
\* actualDimensions.height) after buildGrid has returned, only for a request
\* with overlays; the dimensions are the handler's own
\* calculateActualDimensions(options, images.length).
RouteRenderText ==
    /\ pc = "rasterDone"
    /\ Len(route.textOverlays) > 0
    /\ LET dims == routeActualDimensions(options, images)
       IN  route' = [route EXCEPT
                        !.textSvg = createTextOverlaySvg(route.textOverlays,
                                        dims.width, dims.height)]
    /\ pc' = "overlaid"
    /\ UNCHANGED <<options, images, call, sortedImages, actualDimensions,
                   positions, canvas, i, imageComposites, borderComposites,
                   allComposites, svg>>

\* convertGridToFormat (POST) or sharp(gridBuffer).png (PUT): the encoding
\* of the grid buffer, after the overlays if the request has any.
RouteConvert ==
    /\ \/ pc = "rasterDone" /\ Len(route.textOverlays) = 0
       \/ pc = "overlaid"
    /\ route' = [route EXCEPT !.encoded = route.outputFormat]
    /\ pc' = "encoded"
    /\ UNCHANGED <<options, images, call, sortedImages, actualDimensions,
                   positions, canvas, i, imageComposites, borderComposites,
                   allComposites, svg>>

\* The success response: the built grid with the cells it holds.
RouteRespond ==
    /\ pc \in {"encoded", "svgDone"}
    /\ route' =
           [route EXCEPT !.response =
               [status |-> 200,
                cells |-> IF pc = "encoded"
                          THEN Len(SelectSeq(allComposites,
                                             LAMBDA c : c.kind = "image"))
                          ELSE Len(SelectSeq(svg, LAMBDA e : e.tag = "image"))]]
    /\ pc' = "responded"
    /\ UNCHANGED <<options, images, call, sortedImages, actualDimensions,
                   positions, canvas, i, imageComposites, borderComposites,
                   allComposites, svg>>

\* catch (error): status 500
RouteCatch ==
    /\ pc = "failed"
    /\ respondError(500)
    /\ UNCHANGED <<options, images, call, sortedImages, actualDimensions,
                   positions, canvas, i, imageComposites, borderComposites,
                   allComposites, svg>>

RouteNext ==
    \/ PostValidate
    \/ PutValidate
    \/ LoadImages
    \/ RouteBuildGrid
    \/ RouteBuildGridSvg
    \/ BuildGridCell
    \/ BuildGridComposite
    \/ BuildGridSvgCell
    \/ BuildGridSvgEnd
    \/ RouteRenderText
    \/ RouteConvert
    \/ RouteRespond
    \/ RouteCatch

SpecRoute == RouteInit /\ [][RouteNext]_vars

-----------------------------------------------------------------------------
(* SpecBuilder: the selection of the grid builder (GridBuilder.tsx); images is
   selectedImages, call holds the last handler and draggedIndex (-1 is null) *)

\* The images of the library; the first one has no serverFilename yet.
Library == { [id |-> k, serverFilename |-> k > 1] : k \in 1..MaxLibrary }

\* The mutant keeps the order fields as they were.
reindex_KeepOrders(list) == list

\* list.map((img, index) => ({ ...img, order: index }))
reindex(list) == [k \in 1..Len(list) |-> [list[k] EXCEPT !.order = k - 1]]

\* Array.prototype.splice(index, 1) and splice(index, 0, item), 0-based
spliceOut(list, index) ==
    [k \in 1..(Len(list) - 1) |-> IF k <= index THEN list[k] ELSE list[k + 1]]

spliceIn(list, index, item) ==
    LET at == Min(index, Len(list))
    IN  [k \in 1..(Len(list) + 1) |->
            IF k <= at THEN list[k]
            ELSE IF k = at + 1 THEN item ELSE list[k - 1]]

BuilderInit ==
    /\ options \in TextOptions
    /\ images = <<>>
    /\ call = [fn |-> "none", draggedIndex |-> -1]
    /\ BuildIdle
    /\ route = NoRoute

handleImageSelect ==
    \E image \in Library :
        /\ images' =
               IF ~image.serverFilename THEN images
               ELSE IF \E k \in 1..Len(images) : images[k].id = image.id
                    THEN images
                    ELSE Append(images, [id |-> image.id, order |-> Len(images)])
        /\ call' = [call EXCEPT !.fn = "handleImageSelect"]
        /\ UNCHANGED <<route, options, buildVars>>

handleImageDeselect ==
    \E image \in Library :
        /\ images' = reindex(SelectSeq(images, LAMBDA img : img.id # image.id))
        /\ call' = [call EXCEPT !.fn = "handleImageDeselect"]
        /\ UNCHANGED <<route, options, buildVars>>

\* The 'Clear' button, shown for a non-empty selection: setSelectedImages([])
clearSelection ==
    /\ Len(images) > 0
    /\ images' = <<>>
    /\ call' = [call EXCEPT !.fn = "clearSelection"]
    /\ UNCHANGED <<route, options, buildVars>>

handleDragStart ==
    \E index \in 0..(Len(images) - 1) :
        /\ call' = [fn |-> "handleDragStart", draggedIndex |-> index]
        /\ UNCHANGED <<route, options, images, buildVars>>

handleDragOver ==
    \E index \in 0..(Len(images) - 1) :
        /\ call.draggedIndex # -1
        /\ call.draggedIndex # index
        /\ images' =
               IF call.draggedIndex >= Len(images) THEN images
               ELSE LET draggedItem == images[call.draggedIndex + 1]
                    IN  reindex(spliceIn(spliceOut(images, call.draggedIndex),
                                         index, draggedItem))
        /\ call' = [fn |-> "handleDragOver", draggedIndex |-> index]
        /\ UNCHANGED <<route, options, buildVars>>

handleDragEnd ==
    /\ call' = [fn |-> "handleDragEnd", draggedIndex |-> -1]
    /\ UNCHANGED <<route, options, images, buildVars>>

BuilderNext ==
    \/ handleImageSelect
    \/ handleImageDeselect
    \/ clearSelection
    \/ handleDragStart
    \/ handleDragOver
    \/ handleDragEnd

SpecBuilder == BuilderInit /\ [][BuilderNext]_vars

-----------------------------------------------------------------------------
(* SpecConcurrent: two invocations of buildGrid whose steps interleave at
   their await points.  call.frames[b] holds the parameters and locals of
   invocation b, call.lists the composite arrays the invocations push to. *)

Invocations == {1, 2}

\* The mutant keeps one pair of composite arrays at module level.
listsOf_ModuleLevel(b) == 1

\* const imageComposites = [], borderComposites = [] are locals of the call
listsOf(b) == b

\* Requests that fit and frame without an error: the builder's defaults and
\* a small bordered grid, one configured row.
PairOptions ==
    { [rows |-> 1, cols |-> c, width |-> st.width, height |-> st.height,
       padding |-> st.padding, backgroundColor |-> st.backgroundColor,
       borderWidth |-> st.borderWidth, borderColor |-> "#ffffff",
       cornerRadius |-> st.cornerRadius, imageFit |-> "cover"] :
         c \in 1..MaxCols,
         st \in { [width |-> DefaultSize, height |-> DefaultSize,
                   padding |-> DefaultPadding, borderWidth |-> 0,
                   cornerRadius |-> 0, backgroundColor |-> "#1a1a1a"],
                  [width |-> 40, height |-> 31, padding |-> 2,
                   borderWidth |-> 1, cornerRadius |-> 4,
                   backgroundColor |-> "#ffffff"] } }

\* The images of an invocation, ordered along or against the input order.
PairImages ==
    UNION { { [k \in 1..n |-> [id |-> k, order |-> IF up THEN k - 1 ELSE n - k,
                               width |-> SourceOf(k).width,
                               height |-> SourceOf(k).height,
                               corrupt |-> FALSE]] : up \in BOOLEAN } :
            n \in 1..MaxPairImages }

NoLists == [imageComposites |-> <<>>, borderComposites |-> <<>>]

IdleFrame(imgs, o) ==
    [images |-> imgs, options |-> o, pc |-> "ready", sortedImages |-> <<>>,
     actualDimensions |-> NoDimensions, positions |-> <<>>,
     canvas |-> NoCanvas, i |-> 0, allComposites |-> <<>>]

ConcurrentInit ==
    /\ options \in TextOptions
    /\ images = <<>>
    /\ \E i1 \in PairImages, i2 \in PairImages,
          o1 \in PairOptions, o2 \in PairOptions :
           call = [frames |-> << IdleFrame(i1, o1), IdleFrame(i2, o2) >>,
                   lists |-> << NoLists, NoLists >>]
    /\ BuildIdle
    /\ route = NoRoute

\* Where the loop of a frame stands at index idx: before the await of the
\* next cell's fitting, or past the loop before the await of the composite.
loopPc(f, idx) ==
    IF idx < Len(f.sortedImages) /\ idx < Len(f.positions)
    THEN "fitting" ELSE "compositing"

\* The frame leaves the loop at index idx with the composite arrays ls.
leaveLoop(f, idx, ls) ==
    [f EXCEPT !.i = idx,
              !.pc = loopPc(f, idx),
              !.allComposites =
                  IF loopPc(f, idx) = "compositing"
                  THEN composeAll(ls.imageComposites, ls.borderComposites)
                  ELSE f.allComposites]

\* buildGrid from its call to the first await: sort, dimensions, positions,
\* canvas, the empty composite arrays.
InvokeBuildGrid(b) ==
    LET f == call.frames[b]
        sorted == sortByOrder(f.images)
        dims == calculateActualDimensions(f.options, Len(sorted))
        adjustedOptions == adjustOptions(f.options, dims)
        bgRgb == hexToRgb(f.options.backgroundColor)
        background ==
            IF bgRgb # Null
            THEN [r |-> bgRgb.r, g |-> bgRgb.g, b |-> bgRgb.b, alpha |-> 1]
            ELSE [r |-> 255, g |-> 255, b |-> 255, alpha |-> 1]
        begun == [f EXCEPT
                     !.sortedImages = sorted,
                     !.actualDimensions = dims,
                     !.positions = calculateCellPositions(adjustedOptions,
                                                          Len(sorted)),
                     !.canvas = [width |-> dims.width, height |-> dims.height,
                                 background |-> background]]
    IN  /\ f.pc = "ready"
        /\ call' = IF creatable(dims)
                   THEN [call EXCEPT
                            !.frames[b] = leaveLoop(begun, 0, NoLists),
                            !.lists[listsOf(b)] = NoLists]
                   ELSE [call EXCEPT !.frames[b].pc = "failed"]
        /\ UNCHANGED <<route, options, images, buildVars>>

\* await applyRoundedCorners(...) resolves: the image is pushed; with a
\* border the call goes on to await createCellBorder.
ResolveFit(b) ==
    LET f == call.frames[b]
        image == f.sortedImages[f.i + 1]
        position == f.positions[f.i + 1]
        processedImage ==
            applyRoundedCorners(image, MathRound(position.width, 1),
                                MathRound(position.height, 1),
                                f.options.cornerRadius, f.options.imageFit)
        ls == call.lists[listsOf(b)]
        pushed == [ls EXCEPT !.imageComposites =
                      Append(@, [kind |-> "image", input |-> processedImage,
                                 left |-> MathRound(position.x, 1),
                                 top |-> MathRound(position.y, 1)])]
    IN  /\ f.pc = "fitting"
        /\ call' =
               IF fitThrows(image, position, f.options.imageFit)
               THEN [call EXCEPT !.frames[b].pc = "failed"]
               ELSE IF f.options.borderWidth > 0
                    THEN [call EXCEPT !.frames[b].pc = "bordering",
                                      !.lists[listsOf(b)] = pushed]
                    ELSE [call EXCEPT
                             !.frames[b] = leaveLoop(f, f.i + 1, pushed),
                             !.lists[listsOf(b)] = pushed]
        /\ UNCHANGED <<route, options, images, buildVars>>

\* await createCellBorder(...) resolves: the border is pushed.
ResolveBorder(b) ==
    LET f == call.frames[b]
        position == f.positions[f.i + 1]
        border ==
            createCellBorder(MathRound(position.width, 1),
                             MathRound(position.height, 1),
                             f.options.borderWidth, f.options.borderColor,
                             f.options.cornerRadius)
        ls == call.lists[listsOf(b)]
        pushed ==
            IF border # Null
            THEN [ls EXCEPT !.borderComposites =
                     Append(@, [kind |-> "border", input |-> border,
                                left |-> MathRound(position.x, 1)
                                           - f.options.borderWidth,
                                top |-> MathRound(position.y, 1)
                                          - f.options.borderWidth])]
            ELSE ls
    IN  /\ f.pc = "bordering"
        /\ call' = [call EXCEPT
                       !.frames[b] = leaveLoop(f, f.i + 1, pushed),
                       !.lists[listsOf(b)] = pushed]
        /\ UNCHANGED <<route, options, images, buildVars>>

\* await canvas.composite(allComposites).png().toBuffer() resolves.
ResolveComposite(b) ==
    /\ call.frames[b].pc = "compositing"
    /\ call' = [call EXCEPT !.frames[b].pc = "done"]
    /\ UNCHANGED <<route, options, images, buildVars>>

ConcurrentNext ==
    \E b \in Invocations :
        \/ InvokeBuildGrid(b)
        \/ ResolveFit(b)
        \/ ResolveBorder(b)
        \/ ResolveComposite(b)

SpecConcurrent == ConcurrentInit /\ [][ConcurrentNext]_vars

-----------------------------------------------------------------------------
(* Claims about the layout functions (SpecLayout) *)

\* ceil(n / cols), stated without the source's arithmetic
RowsNeeded(n, cols) == CHOOSE k \in 1..n : k * cols >= n /\ (k - 1) * cols < n

\* The cell height the configured rows and height give, before any clamping
ConfiguredCellHeight(o) ==
    (o.height - o.padding * (o.rows + 1) - o.borderWidth * o.rows * 2) \div o.rows

ConfiguredCellWidth(o) ==
    (o.width - o.padding * (o.cols + 1) - o.borderWidth * o.cols * 2) \div o.cols

DefaultScenario(o) ==
    /\ o.cols = 2 /\ o.rows = 2
    /\ o.width = DefaultSize /\ o.height = DefaultSize
    /\ o.padding = DefaultPadding /\ o.borderWidth = 0

\* C1: calculateActualDimensions returns rows = ceil(imageCount/cols), the
\* configured width unchanged, and height = padding*(actualRows+1) +
\* borderWidth*actualRows*2 + cellHeight*actualRows, with cellHeight taken
\* from the configured rows and height, not from actualRows (2x2, 1080x1080,
\* padding 20, border 0, 1 image: actualRows 1, height 550).
C1_ActualDimensions ==
    call.fn = "calculateActualDimensions" =>
        LET o == options
            d == call.dimensions
            ar == RowsNeeded(call.imageCount, o.cols)
            cellHeight == ConfiguredCellHeight(o)
        IN  /\ d.rows = ar
            /\ d.width = o.width
            /\ d.height = o.padding * (ar + 1) + o.borderWidth * ar * 2
                            + cellHeight * ar
            /\ (DefaultScenario(o) /\ call.imageCount = 1) =>
                   (d.rows = 1 /\ cellHeight = 510 /\ d.height = 550)

C1_Witness ==
    /\ call.fn = "calculateActualDimensions"
    /\ DefaultScenario(options)
    /\ call.imageCount = 1
    /\ call.dimensions = [width |-> 1080, height |-> 550, rows |-> 1, cols |-> 2]

\* C4: calculateCellPositions returns exactly min(imageCount, actualRows*cols)
\* positions; the position at index i has x = padding + borderWidth +
\* (i mod cols)*(cellWidth + 2*borderWidth + padding) and y = padding +
\* borderWidth + floor(i/cols)*(cellHeight + 2*borderWidth + padding), and
\* every position carries the same width cellWidth and height cellHeight
\* (the cell size with its minimum of one pixel).
C4_CellPositions ==
    call.fn = "calculateCellPositions" =>
        LET o == options
            n == call.imageCount
            ar == RowsNeeded(n, o.cols)
            cellWidth == Max(1, ConfiguredCellWidth(o))
            cellHeight == Max(1, ConfiguredCellHeight(o))
        IN  /\ Len(call.cells) = Min(n, ar * o.cols)
            /\ \A k \in 1..Len(call.cells) :
                   LET idx == k - 1
                       col == idx % o.cols
                       row == (idx - col) \div o.cols
                   IN  call.cells[k] =
                         [x |-> o.padding + o.borderWidth
                                  + col * (cellWidth + 2 * o.borderWidth + o.padding),
                          y |-> o.padding + o.borderWidth
                                  + row * (cellHeight + 2 * o.borderWidth + o.padding),
                          width |-> cellWidth, height |-> cellHeight]

C4_Witness ==
    /\ call.fn = "calculateCellPositions"
    /\ options.cols = 2 /\ options.rows = 1
    /\ options.padding = 1 /\ options.borderWidth = 1
    /\ options.width = DefaultSize /\ options.height = 6
    /\ call.imageCount = 3
    /\ call.cells = << [x |-> 2, y |-> 2, width |-> 536, height |-> 2],
                       [x |-> 541, y |-> 2, width |-> 536, height |-> 2],
                       [x |-> 2, y |-> 7, width |-> 536, height |-> 2] >>

\* C5 as claimed: whenever ceil(imageCount/cols) equals the configured rows,
\* the height returned by calculateActualDimensions equals the configured
\* canvas height.
C5_HeightUnchanged ==
    (/\ call.fn = "calculateActualDimensions"
     /\ RowsNeeded(call.imageCount, options.cols) = options.rows)
        => call.dimensions.height = options.height

\* C5 amended: whenever ceil(imageCount/cols) equals the configured rows, the
\* returned height is the configured height minus the remainder of the
\* available height (height - padding*(rows+1) - borderWidth*rows*2) divided
\* by rows; it equals the configured height exactly when that remainder is 0.
C5_HeightLosesRemainder ==
    (/\ call.fn = "calculateActualDimensions"
     /\ RowsNeeded(call.imageCount, options.cols) = options.rows)
        => LET o == options
               remainder == (o.height - o.padding * (o.rows + 1)
                               - o.borderWidth * o.rows * 2) % o.rows
           IN  /\ call.dimensions.height = o.height - remainder
               /\ (call.dimensions.height = o.height) <=> (remainder = 0)

C5_Witness ==
    /\ call.fn = "calculateActualDimensions"
    /\ options.cols = 2 /\ options.rows = 2 /\ call.imageCount = 3
    /\ options.height = 6 /\ options.padding = 1 /\ options.borderWidth = 0
    /\ call.dimensions.height = 5

\* C7: every cell position returned by calculateCellPositions has width >= 1
\* and height >= 1, also when padding and borders exceed the canvas size.
C7_MinimumCellSize ==
    call.fn = "calculateCellPositions" =>
        \A k \in 1..Len(call.cells) :
            call.cells[k].width >= 1 /\ call.cells[k].height >= 1

C7_Witness ==
    /\ call.fn = "calculateCellPositions"
    /\ options.padding * (options.cols + 1) > options.width
    /\ options.padding * (options.rows + 1) > options.height
    /\ Len(call.cells) = call.imageCount
    /\ call.cells[1].width = 1 /\ call.cells[1].height = 1

\* C8: for a fixed spec with padding >= 0 and borderWidth >= 0 and image
\* counts 1 <= m <= n <= cols*rows, actualRows(m) = ceil(m/cols) and
\* finalHeight(m) <= finalHeight(n): the canvas height never increases when
\* the image count decreases.
C8_HeightMonotone ==
    (/\ call.fn = "calculateActualDimensions"
     /\ options.padding >= 0 /\ options.borderWidth >= 0
     /\ call.imageCount <= options.cols * options.rows)
        => /\ call.dimensions.rows = RowsNeeded(call.imageCount, options.cols)
           /\ \A m \in 1..call.imageCount :
                  calculateActualDimensions(options, m).height
                      <= call.dimensions.height

-----------------------------------------------------------------------------
(* Claims about the two backends (Spec) *)

Capacity(o) == o.cols * o.rows

\* The image elements of the SVG document, in document order
SvgImages == SelectSeq(svg, LAMBDA e : e.tag = "image")

\* Number of images placed before the given one: smaller order first, equal
\* orders in input order
Rank(img) ==
    Cardinality({ k \in 1..Len(images) :
                    \/ images[k].order < img.order
                    \/ images[k].order = img.order /\ images[k].id < img.id })

ImageOfRank(r) == CHOOSE k \in 1..Len(images) : Rank(images[k]) = r

\* x and y of the cell with the 0-based index idx under the configured options
CellX(o, idx) ==
    o.padding + o.borderWidth
      + (idx % o.cols) * (Max(1, ConfiguredCellWidth(o)) + 2 * o.borderWidth + o.padding)

CellY(o, idx) ==
    o.padding + o.borderWidth
      + ((idx - (idx % o.cols)) \div o.cols)
          * (Max(1, ConfiguredCellHeight(o)) + 2 * o.borderWidth + o.padding)

\* C2: in buildGrid and buildGridSvg, which recompute the cell positions from
\* the adjusted options, the height of every placed cell equals the cell
\* height the configured rows and canvas height produce (with its minimum of
\* one pixel), for every image count; it never changes with the image count.
C2_CellHeightKept ==
    pc # "ready" =>
        /\ Len(positions) = Len(images)
        /\ \A k \in 1..Len(positions) :
               positions[k].height = Max(1, ConfiguredCellHeight(options))
        /\ \A k \in 1..Len(imageComposites) :
               imageComposites[k].input.height = Max(1, ConfiguredCellHeight(options))
        /\ options.imageFit # "contain" =>
               \A k \in 1..Len(SvgImages) :
                   SvgImages[k].height = Max(1, ConfiguredCellHeight(options))

C2_Witness ==
    /\ pc = "rasterDone"
    /\ DefaultScenario(options)
    /\ Len(images) = 1
    /\ actualDimensions.rows = 1 /\ canvas.height = 550
    /\ Len(imageComposites) = 1
    /\ imageComposites[1].input.height = 510

\* C3: for identical (images, spec) the width and height declared on the SVG
\* root of buildGridSvg equal the width and height of the raster canvas of
\* buildGrid: both are the configured width and the final height
\* padding*(actualRows+1) + borderWidth*actualRows*2 + cellHeight*actualRows.
C3_SameCanvasSize ==
    LET ar == RowsNeeded(Len(images), options.cols)
        finalHeight == options.padding * (ar + 1) + options.borderWidth * ar * 2
                         + ConfiguredCellHeight(options) * ar
    IN  /\ pc \in {"buildGrid", "rasterDone"} =>
               (canvas.width = options.width /\ canvas.height = finalHeight)
        /\ pc \in {"buildGridSvg", "svgDone"} =>
               (/\ svg[1].tag = "svg"
                /\ svg[1].width = options.width
                /\ svg[1].height = finalHeight)

C3_Witness ==
    /\ pc = "svgDone"
    /\ DefaultScenario(options)
    /\ Len(images) = 1
    /\ svg[1] = [tag |-> "svg", width |-> 1080, height |-> 550]

C9_PlacedByOrder ==
    /\ pc = "rasterDone" =>
           /\ Len(imageComposites) = Len(images)
           /\ \A k \in 1..Len(imageComposites) :
                  /\ imageComposites[k].input.image = images[ImageOfRank(k - 1)].id
                  /\ imageComposites[k].left = CellX(options, k - 1)
                  /\ imageComposites[k].top = CellY(options, k - 1)
    /\ pc = "svgDone" =>
           /\ Len(SvgImages) = Len(images)
           /\ \A k \in 1..Len(SvgImages) :
                  /\ SvgImages[k].image = images[ImageOfRank(k - 1)].id
                  /\ options.imageFit # "contain" =>
                         /\ SvgImages[k].x2 = 2 * CellX(options, k - 1)
                         /\ SvgImages[k].y2 = 2 * CellY(options, k - 1)

C9_Witness ==
    /\ pc = "rasterDone"
    /\ options.cols = 2
    /\ Len(images) = 3
    /\ images[1].order = 1 /\ images[2].order = 0 /\ images[3].order = 1
    /\ imageComposites[1].input.image = 2
    /\ imageComposites[2].input.image = 1
    /\ imageComposites[3].input.image = 3
    /\ imageComposites[3].left = imageComposites[1].left
    /\ imageComposites[3].top > imageComposites[1].top

\* C10: in the composite list buildGrid hands to the canvas every cell image
\* precedes every border overlay, for every image count and every
\* borderWidth > 0, also when padding is 0.
C10_ImagesBeforeBorders ==
    pc = "rasterDone" =>
        /\ Len(allComposites) = Len(imageComposites) + Len(borderComposites)
        /\ options.borderWidth > 0 => Len(borderComposites) = Len(images)
        /\ \A a, b \in 1..Len(allComposites) :
               (allComposites[a].kind = "border" /\ allComposites[b].kind = "image")
                   => b < a

C10_Witness ==
    /\ pc = "rasterDone"
    /\ options.borderWidth > 0 /\ options.padding = 0
    /\ Len(images) >= 2
    /\ Len(allComposites) = 2 * Len(images)
    /\ allComposites[1].kind = "image"
    /\ allComposites[Len(images) + 1].kind = "border"

\* C11: for every placed cell at (x, y, w, h) and borderWidth b > 0,
\* buildGrid emits exactly one border overlay, of size (w + 2b) x (h + 2b),
\* composited at (x - b, y - b); when b = 0 no border overlay is emitted.
C11_BorderOverlayBox ==
    pc = "rasterDone" =>
        LET b == options.borderWidth
            w == Max(1, ConfiguredCellWidth(options))
            h == Max(1, ConfiguredCellHeight(options))
            borders == SelectSeq(allComposites, LAMBDA c : c.kind = "border")
        IN  /\ b = 0 => borders = <<>>
            /\ b > 0 =>
                   /\ Len(borders) = Len(images)
                   /\ \A k \in 1..Len(borders) :
                          /\ borders[k].input.width = w + 2 * b
                          /\ borders[k].input.height = h + 2 * b
                          /\ borders[k].left = CellX(options, k - 1) - b
                          /\ borders[k].top = CellY(options, k - 1) - b
                          /\ borders[k].left = imageComposites[k].left - b
                          /\ borders[k].top = imageComposites[k].top - b

C11_Witness ==
    /\ pc = "rasterDone"
    /\ options.borderWidth = 3 /\ options.cols = 2 /\ options.rows = 1
    /\ Len(images) = 2
    /\ Len(borderComposites) = 2
    /\ borderComposites[2].input.width = 540
    /\ borderComposites[2].input.height = 1080
    /\ borderComposites[2].left = 540 /\ borderComposites[2].top = 0

\* C12: when backgroundColor is "transparent" the raster canvas allocated by
\* buildGrid is fully transparent (alpha 0) before any cell is composited;
\* for any other backgroundColor the canvas is filled with that colour.
C12_CanvasBackground ==
    pc \in {"buildGrid", "rasterDone"} =>
        IF options.backgroundColor = "transparent"
        THEN canvas.background.alpha = 0
        ELSE LET rgb == hexToRgb(options.backgroundColor)
             IN  canvas.background =
                     [r |-> rgb.r, g |-> rgb.g, b |-> rgb.b, alpha |-> 1]

\* The stroked border rects of the SVG document, in document order.
SvgBorders == SelectSeq(svg, LAMBDA e : e.tag = "rect" /\ e.role = "border")

\* The cell size every placed cell of a build has.
PlacedCellWidth(o) == Max(1, ConfiguredCellWidth(o))

PlacedCellHeight(o) == Max(1, ConfiguredCellHeight(o))

\* C17: for cover and fill, the fitted image occupies exactly the whole cell
\* rectangle (x, y, cellWidth, cellHeight) in both backends; only contain can
\* place an image rectangle strictly smaller than its cell.
C17_CoverFillWholeCell ==
    options.imageFit \in {"cover", "fill"} =>
        /\ pc = "rasterDone" =>
               \A k \in 1..Len(imageComposites) :
                   LET c == imageComposites[k]
                   IN  /\ c.left = CellX(options, k - 1)
                       /\ c.top = CellY(options, k - 1)
                       /\ c.input.width = PlacedCellWidth(options)
                       /\ c.input.height = PlacedCellHeight(options)
                       /\ c.input.innerLeft = 0 /\ c.input.innerTop = 0
                       /\ c.input.innerWidth = c.input.width
                       /\ c.input.innerHeight = c.input.height
        /\ pc = "svgDone" =>
               \A k \in 1..Len(SvgImages) :
                   LET e == SvgImages[k]
                   IN  /\ e.x2 = 2 * CellX(options, k - 1)
                       /\ e.y2 = 2 * CellY(options, k - 1)
                       /\ e.width = PlacedCellWidth(options)
                       /\ e.height = PlacedCellHeight(options)

\* A cover build whose 600x200 source fills a 534x1074 cell.
C17_Witness ==
    /\ pc = "rasterDone"
    /\ options.imageFit = "cover"
    /\ Len(imageComposites) = 2
    /\ sortedImages[1].width = 600 /\ sortedImages[1].height = 200
    /\ imageComposites[1].input.innerWidth = 534
    /\ imageComposites[1].input.innerHeight = 1074
    /\ imageComposites[1].input.innerLeft = 0
    /\ imageComposites[1].left = 3 /\ imageComposites[1].top = 3

\* C18: for every cell at (x, y, w, h) and borderWidth b > 0, the SVG border is
\* a stroke-only rect at (x - b/2, y - b/2) of size (w + b) x (h + b) with
\* stroke width b; the raster border's stroke path has the same origin and
\* size in canvas coordinates; both cover the box (x - b, y - b, w + 2b, h + 2b).
C18_BorderStrokePath ==
    options.borderWidth > 0 =>
        LET b == options.borderWidth
            w == PlacedCellWidth(options)
            h == PlacedCellHeight(options)
        IN  /\ pc = "svgDone" =>
                /\ Len(SvgBorders) = Len(images)
                /\ \A k \in 1..Len(SvgBorders) :
                       LET e == SvgBorders[k]
                           x == CellX(options, k - 1)
                           y == CellY(options, k - 1)
                           raster == createCellBorder(w, h, b, options.borderColor,
                                                      options.cornerRadius)
                       IN  /\ e.x2 = 2 * x - b /\ e.y2 = 2 * y - b
                           /\ e.width = w + b /\ e.height = h + b
                           /\ e.strokeWidth = b
                           \* the raster stroke path, composited at (x - b, y - b)
                           /\ e.x2 = 2 * (x - b) + raster.rectX2
                           /\ e.y2 = 2 * (y - b) + raster.rectY2
                           /\ e.width = raster.rectWidth
                           /\ e.height = raster.rectHeight
                           /\ e.strokeWidth = raster.strokeWidth
                           \* the box covered by the stroke, in half pixels
                           /\ e.x2 - e.strokeWidth = 2 * (x - b)
                           /\ e.y2 - e.strokeWidth = 2 * (y - b)
                           /\ 2 * e.width + 2 * e.strokeWidth = 2 * (w + 2 * b)
                           /\ 2 * e.height + 2 * e.strokeWidth = 2 * (h + 2 * b)
            /\ pc = "rasterDone" =>
                /\ Len(borderComposites) = Len(images)
                /\ \A k \in 1..Len(borderComposites) :
                       LET c == borderComposites[k]
                           x == CellX(options, k - 1)
                           y == CellY(options, k - 1)
                       IN  /\ 2 * c.left + c.input.rectX2 = 2 * x - b
                           /\ 2 * c.top + c.input.rectY2 = 2 * y - b
                           /\ c.input.rectWidth = w + b
                           /\ c.input.rectHeight = h + b
                           /\ c.input.strokeWidth = b
                           /\ c.left = x - b /\ c.top = y - b
                           /\ c.input.width = w + 2 * b
                           /\ c.input.height = h + 2 * b

\* Border 3 around the second 534x1074 cell at (543, 3): rect at (541.5, 1.5).
C18_Witness ==
    /\ pc = "svgDone"
    /\ options.borderWidth = 3 /\ options.cols = 2 /\ options.rows = 1
    /\ Len(SvgBorders) = 2
    /\ SvgBorders[2].x2 = 1083 /\ SvgBorders[2].y2 = 3
    /\ SvgBorders[2].width = 537 /\ SvgBorders[2].height = 1077
    /\ SvgBorders[2].strokeWidth = 3

-----------------------------------------------------------------------------
(* Claims about the contain policy (SpecFit) *)

\* n = round(p / q) with halves rounded up, for q > 0
IsRound(n, p, q) == (2 * n - 1) * q <= 2 * p /\ 2 * p < (2 * n + 1) * q

\* C15: contain with a source iw x ih into a cell w x h: scale =
\* min(w/iw, h/ih); the scaled size (round(iw*scale), round(ih*scale)) never
\* exceeds the cell and equals it in at least one axis; it is composited at
\* (round((w - newW)/2), round((h - newH)/2)), entirely inside the cell.
C15_ContainFit ==
    (options.imageFit = "contain" /\ call.raster # Null) =>
        LET iw == images[1].width
            ih == images[1].height
            w == call.width
            h == call.height
            r == call.raster
            widthBound == w * ih <= h * iw      \* w/iw <= h/ih
        IN  /\ IF widthBound
               THEN /\ IsRound(r.innerWidth, iw * w, iw)
                    /\ IsRound(r.innerHeight, ih * w, iw)
               ELSE /\ IsRound(r.innerWidth, iw * h, ih)
                    /\ IsRound(r.innerHeight, ih * h, ih)
            /\ r.innerWidth <= w /\ r.innerHeight <= h
            /\ r.innerWidth = w \/ r.innerHeight = h
            /\ IsRound(r.innerLeft, w - r.innerWidth, 2)
            /\ IsRound(r.innerTop, h - r.innerHeight, 2)
            /\ r.width = w /\ r.height = h
            /\ r.innerLeft >= 0 /\ r.innerTop >= 0
            /\ r.innerLeft + r.innerWidth <= w
            /\ r.innerTop + r.innerHeight <= h

\* 600x200 into 300x300 gives 300x100 at offset (0, 100).
C15_Witness ==
    /\ options.imageFit = "contain"
    /\ images[1].width = 600 /\ images[1].height = 200
    /\ call.width = 300 /\ call.height = 300
    /\ call.raster # Null
    /\ call.raster.innerWidth = 300 /\ call.raster.innerHeight = 100
    /\ call.raster.innerLeft = 0 /\ call.raster.innerTop = 100

\* C16: for contain, the <image> of buildGridSvg has the same size and the
\* same canvas position as the scaled image of buildGrid: x/y equal the cell
\* origin plus the centering offset the raster backend composites at.
C16_SamePlacement ==
    (options.imageFit = "contain" /\ call.raster # Null /\ call.vector # Null) =>
        /\ call.vector.width = call.raster.innerWidth
        /\ call.vector.height = call.raster.innerHeight
        /\ call.vector.x2 = 2 * (call.origin.x + call.raster.innerLeft)
        /\ call.vector.y2 = 2 * (call.origin.y + call.raster.innerTop)

-----------------------------------------------------------------------------
(* Claims about the text overlays (SpecText) *)

TextCalled == call.fn = "createTextSvgElement"

IsShadowText(e) == e.filter = "url(#shadow-blur)"

IsStrokeText(e) == e.fill = "none" /\ e.stroke # ""

IsFillText(e) == ~IsShadowText(e) /\ ~IsStrokeText(e)

\* C19: every text element of an overlay is anchored at
\* (round(x * canvasWidth), round(y * canvasHeight)), the shadow layer shifted
\* by its offsetX/offsetY, independent of align; align only selects
\* text-anchor (left -> start, center -> middle, right -> end); for x, y in
\* [0, 1] the anchor lies within [0, canvasWidth] x [0, canvasHeight].
C19_TextAnchor ==
    TextCalled =>
        LET o == call.overlay
        IN  \A k \in 1..Len(call.elements) :
                LET e == call.elements[k]
                    dx == IF IsShadowText(e) THEN o.shadow.offsetX ELSE 0
                    dy == IF IsShadowText(e) THEN o.shadow.offsetY ELSE 0
                IN  /\ IsRound(e.x - dx, o.x.num * call.width, o.x.den)
                    /\ IsRound(e.y - dy, o.y.num * call.height, o.y.den)
                    /\ o.align = "left" => e.textAnchor = "start"
                    /\ o.align = "center" => e.textAnchor = "middle"
                    /\ o.align = "right" => e.textAnchor = "end"
                    /\ (0 <= o.x.num /\ o.x.num <= o.x.den) =>
                           (0 <= e.x - dx /\ e.x - dx <= call.width)
                    /\ (0 <= o.y.num /\ o.y.num <= o.y.den) =>
                           (0 <= e.y - dy /\ e.y - dy <= call.height)

\* x = 1.0, y = 0.0, align right on 1000x500: anchor (1000, 0), text-anchor end.
C19_Witness ==
    /\ TextCalled
    /\ call.overlay.x.num = call.overlay.x.den /\ call.overlay.y.num = 0
    /\ call.overlay.align = "right"
    /\ call.width = 1000 /\ call.height = 500
    /\ call.overlay.shadow = Null /\ call.overlay.stroke = Null
    /\ Len(call.elements) = 1
    /\ call.elements[1].x = 1000 /\ call.elements[1].y = 0
    /\ call.elements[1].textAnchor = "end"

\* The order of the layers: shadow, then stroke, then the fill text, the
\* fill text exactly once and last; hasStroke tells whether a stroke layer
\* is due.
LayerOrder(hasShadow, hasStroke) ==
    LET els == call.elements
        n == Len(els)
    IN  /\ n = (IF hasShadow THEN 1 ELSE 0) + (IF hasStroke THEN 1 ELSE 0) + 1
        /\ IsFillText(els[n])
        /\ els[n].fill = call.overlay.color
        /\ \A k \in 1..(n - 1) : ~IsFillText(els[k])
        /\ hasShadow => IsShadowText(els[1])
        /\ hasStroke => IsStrokeText(els[n - 1])

\* C20 as stated: createTextSvgElement emits a shadow element first if shadow
\* is present, then a stroke-only (fill none) element if stroke is present,
\* and the fill-coloured element last, exactly once.
C20_LayerOrderStrokePresent ==
    TextCalled =>
        LayerOrder(call.overlay.shadow # Null, call.overlay.stroke # Null)

\* C20 amended: the stroke-only element is emitted if stroke is present with
\* a width greater than 0; the order is shadow, stroke, fill, and the fill
\* element is emitted exactly once, last.
C20_LayerOrderStrokeWidth ==
    TextCalled =>
        LayerOrder(call.overlay.shadow # Null,
                   call.overlay.stroke # Null /\ call.overlay.stroke.width > 0)

\* An overlay with a shadow and a 2 px stroke: three layers in order.
C20_Witness ==
    /\ TextCalled
    /\ call.overlay.shadow # Null /\ call.overlay.stroke # Null
    /\ call.overlay.stroke.width = 2
    /\ Len(call.elements) = 3
    /\ IsShadowText(call.elements[1])
    /\ IsStrokeText(call.elements[2])
    /\ IsFillText(call.elements[3])

-----------------------------------------------------------------------------
(* Claims about the route (SpecRoute) *)

Responded == pc = "responded"

SomeCorrupt == \E k \in 1..Len(images) : images[k].corrupt

\* The request passed the checks of its entry point.
Accepted ==
    /\ Len(images) > 0
    /\ route.entry = "POST" => (route.options.rows # 0 /\ route.options.cols # 0)

\* C13: if fitting any one of the n images fails, the whole build fails:
\* buildGrid/buildGridSvg return no buffer and the request ends in an error
\* response; the outcome is either an output with all n placed cells or an
\* error, never an output with only some of the cells.
C13_AllCellsOrError ==
    /\ SomeCorrupt => /\ pc \notin {"rasterDone", "svgDone"}
                      /\ allComposites = <<>>
                      /\ route.response.status # 200
    /\ (SomeCorrupt /\ Accepted /\ Responded) => route.response.status = 500
    /\ Responded =>
           \/ route.response.status = 200 /\ route.response.cells = Len(images)
           \/ route.response.status \in {400, 500} /\ route.response.cells = 0

\* Three images, the last in order undecodable: two cells were fitted, then
\* the request ended with status 500.
C13_Witness ==
    /\ Responded
    /\ Len(images) = 3
    /\ images[1].corrupt
    /\ Len(imageComposites) = 2
    /\ allComposites = <<>>
    /\ route.response = [status |-> 500, cells |-> 0]

\* The spec of a request is invalid: cols = 0 or a negative padding.
InvalidSpec(o) == o.cols = 0 \/ o.padding < 0

\* C14: a grid request whose spec is invalid (cols = 0, or negative padding)
\* is rejected with an error before any work begins: no image is loaded,
\* fitted or composited, on the export and on the preview entry point.
C14_InvalidRejectedBeforeWork ==
    (route.entry \in {"POST", "PUT"} /\ InvalidSpec(route.options)) =>
        /\ route.loaded = 0
        /\ imageComposites = <<>> /\ allComposites = <<>>
        /\ SvgImages = <<>>
        /\ Responded => route.response.status \in {400, 500}

-----------------------------------------------------------------------------
(* Claims about the SVG document and the border radius (Spec) *)

\* The places of the opening and the closing defs tag in the document.
DefsOpen == CHOOSE k \in 1..Len(svg) : svg[k].tag = "defs"

DefsClose == CHOOSE k \in 1..Len(svg) : svg[k].tag = "/defs"

InsideDefs(k) == DefsOpen < k /\ k < DefsClose

\* C23: in the SVG of buildGridSvg the background rect, every <image> and
\* every border rect are emitted outside the <defs> section; only clipPath
\* definitions are emitted between <defs> and </defs>.
C23_ContentOutsideDefs ==
    pc = "svgDone" =>
        \A k \in 1..Len(svg) :
            /\ svg[k].tag \in {"rect", "image"} => ~InsideDefs(k)
            /\ InsideDefs(k) => svg[k].tag = "clipPath"

\* C24: for every cell, borderWidth > 0 and cornerRadius >= 0, the corner
\* radius of the border stroke path of buildGridSvg equals the one of
\* createCellBorder (radii in half pixels).
C24_SameBorderRadius ==
    (pc = "svgDone" /\ options.borderWidth > 0) =>
        \A k \in 1..Len(SvgBorders) :
            LET raster == createCellBorder(PlacedCellWidth(options),
                              PlacedCellHeight(options), options.borderWidth,
                              options.borderColor, options.cornerRadius)
            IN  SvgBorders[k].rx2 = 2 * raster.rx

\* The clipPath definitions of the SVG document, in document order.
SvgClipPaths == SelectSeq(svg, LAMBDA e : e.tag = "clipPath")

\* C28: a clipPath clip-i is emitted for cell i iff cornerRadius > 0, its rect
\* is the cell's rectangle with rx = ry = cornerRadius; the cell's <image>
\* references a clipPath iff cornerRadius > 0, always its own cell's; no
\* image references a clipPath the document does not define.
C28_ClipPaths ==
    pc = "svgDone" =>
        /\ options.cornerRadius <= 0 =>
               /\ SvgClipPaths = <<>>
               /\ \A k \in 1..Len(SvgImages) : SvgImages[k].clip = -1
        /\ options.cornerRadius > 0 =>
               /\ Len(SvgClipPaths) = Len(images)
               /\ Len(SvgImages) = Len(images)
               /\ \A k \in 1..Len(SvgClipPaths) :
                      LET c == SvgClipPaths[k]
                      IN  /\ c.id = k - 1
                          /\ c.x = CellX(options, k - 1)
                          /\ c.y = CellY(options, k - 1)
                          /\ c.width = PlacedCellWidth(options)
                          /\ c.height = PlacedCellHeight(options)
                          /\ c.rx = options.cornerRadius
                          /\ c.ry = options.cornerRadius
                          /\ SvgImages[k].clip = c.id
        /\ \A k \in 1..Len(SvgImages) :
               SvgImages[k].clip # -1 =>
                   \E j \in 1..Len(SvgClipPaths) :
                       SvgClipPaths[j].id = SvgImages[k].clip

\* Radius 10, two cells: clip-0 and clip-1, the second on the cell at (543, 3).
C28_Witness ==
    /\ pc = "svgDone"
    /\ options.cornerRadius = 10 /\ options.cols = 2 /\ options.rows = 1
    /\ Len(SvgClipPaths) = 2
    /\ SvgClipPaths[2].id = 1
    /\ SvgClipPaths[2].x = 543 /\ SvgClipPaths[2].y = 3
    /\ SvgClipPaths[2].width = 534 /\ SvgClipPaths[2].height = 1074
    /\ SvgClipPaths[2].rx = 10
    /\ SvgImages[2].clip = 1

-----------------------------------------------------------------------------
(* Claims about the scaled size of the contain policy (SpecFit) *)

\* C29: for contain, every source iw x ih (>= 1) and every cell w x h (>= 1),
\* both scaled dimensions are at least 1, so the resize is never asked for a
\* zero-sized image, in the raster and in the vector path.
C29_ScaledSizePositive ==
    options.imageFit = "contain" =>
        /\ ~call.refused
        /\ call.raster # Null =>
               call.raster.innerWidth >= 1 /\ call.raster.innerHeight >= 1
        /\ call.vector # Null =>
               call.vector.width >= 1 /\ call.vector.height >= 1

-----------------------------------------------------------------------------
(* Claims about the canvas and the cells of a build (Spec) *)

\* C22: for cols >= 1, rows >= 1, padding >= 0, borderWidth >= 0 and at least
\* one image, the canvas used by buildGrid has positive width and height, and
\* every placed cell with its border lies inside it with at least `padding`
\* margin on every side.
C22_CellsInsideCanvas ==
    (/\ pc \in {"buildGrid", "rasterDone", "failed"}
     /\ options.cols >= 1 /\ options.rows >= 1
     /\ options.padding >= 0 /\ options.borderWidth >= 0
     /\ Len(images) >= 1) =>
        LET b == options.borderWidth
            p == options.padding
        IN  /\ actualDimensions.width >= 1
            /\ actualDimensions.height >= 1
            /\ \A k \in 1..Len(positions) :
                   LET c == positions[k]
                   IN  /\ c.x - b >= p
                       /\ c.y - b >= p
                       /\ c.x + c.width + b + p <= actualDimensions.width
                       /\ c.y + c.height + b + p <= actualDimensions.height

-----------------------------------------------------------------------------
(* Claims about the stages of a request (SpecRoute) *)

\* The document holds a text element that references the blur filter.
HasShadowText(doc) ==
    \E k \in 1..Len(doc) :
        doc[k].tag = "text" /\ doc[k].filter = "url(#shadow-blur)"

\* The document defines the Gaussian blur filter shadow-blur, stdDeviation 2.
DefinesShadowBlur(doc) ==
    \E k \in 1..Len(doc) :
        /\ doc[k].tag = "filter"
        /\ doc[k].id = "shadow-blur"
        /\ doc[k].stdDeviation = 2

\* C21: whenever an overlay has a shadow, the document that contains its
\* shadow text element - the overlay SVG of the raster path and the grid SVG
\* of the vector path alike - defines the Gaussian blur filter (stdDeviation
\* 2) the shadow element references.
C21_ShadowFilterDefined ==
    /\ HasShadowText(route.textSvg) => DefinesShadowBlur(route.textSvg)
    /\ (pc \in {"svgDone", "responded"} /\ HasShadowText(svg)) =>
           DefinesShadowBlur(svg)

\* The raster backend has run (buildGrid got as far as its canvas or threw),
\* the vector backend has run.
RasterRan == canvas # NoCanvas \/ imageComposites # <<>> \/ allComposites # <<>>

VectorRan == svg # <<>>

\* C25: in every export request exactly one render backend runs: outputFormat
\* svg invokes only buildGridSvg (and then neither renderTextOverlays nor
\* convertGridToFormat), any other format only buildGrid; no request invokes
\* both backends.
C25_OneBackend ==
    route.entry = "POST" =>
        /\ ~(RasterRan /\ VectorRan)
        /\ route.outputFormat = "svg" =>
               /\ ~RasterRan
               /\ pc \notin {"buildGrid", "rasterDone", "overlaid", "encoded"}
               /\ route.textSvg = <<>>
               /\ route.encoded = "none"
        /\ route.outputFormat # "svg" =>
               /\ ~VectorRan
               /\ pc \notin {"buildGridSvg", "svgDone"}
        /\ (Responded /\ route.response.status = 200) =>
               IF route.outputFormat = "svg"
               THEN VectorRan
               ELSE RasterRan /\ route.encoded = route.outputFormat

\* An SVG export with overlays, answered from buildGridSvg alone.
C25_Witness ==
    /\ Responded
    /\ route.entry = "POST" /\ route.outputFormat = "svg"
    /\ Len(route.textOverlays) = 2
    /\ route.response = [status |-> 200, cells |-> 2]
    /\ VectorRan /\ ~RasterRan
    /\ route.textSvg = <<>> /\ route.encoded = "none"

\* The text elements of the overlay document.
TextSvgTexts == SelectSeq(route.textSvg, LAMBDA e : e.tag = "text")

\* C26: in every raster request (export and preview) the stages run in the
\* order layout -> cell fitting/framing -> raster composite -> text overlay ->
\* format encoding: overlays are composited only after buildGrid has returned
\* and before the buffer is encoded, and their coordinates are resolved
\* against the actual canvas width and final height buildGrid rendered.
C26_StageOrder ==
    ~usesSvgBackend(route) =>
        \* fitting after layout, composite after the fitting of every cell
        /\ imageComposites # <<>> =>
               canvas # NoCanvas /\ Len(positions) = Len(images)
        /\ allComposites # <<>> => Len(imageComposites) = Len(images)
        \* text only after buildGrid has returned
        /\ pc \in {"overlaid", "encoded"} => allComposites # <<>>
        /\ route.textSvg # <<>> =>
               /\ allComposites # <<>>
               /\ pc \in {"overlaid", "encoded", "responded"}
               /\ route.textSvg[1].width = canvas.width
               /\ route.textSvg[1].height = canvas.height
               /\ Len(TextSvgTexts) >= Len(route.textOverlays)
               /\ \A k \in 1..Len(TextSvgTexts) :
                      \E j \in 1..Len(route.textOverlays) :
                          LET o == route.textOverlays[j]
                              e == TextSvgTexts[k]
                              dx == IF e.filter # "" THEN o.shadow.offsetX ELSE 0
                              dy == IF e.filter # "" THEN o.shadow.offsetY ELSE 0
                          IN  /\ (e.filter # "") => o.shadow # Null
                              /\ IsRound(e.x - dx, o.x.num * canvas.width, o.x.den)
                              /\ IsRound(e.y - dy, o.y.num * canvas.height, o.y.den)
        \* encoding last, after the overlays of a request that has any
        /\ route.encoded # "none" =>
               /\ pc \in {"encoded", "responded"}
               /\ allComposites # <<>>
               /\ Len(route.textOverlays) > 0 => route.textSvg # <<>>
        /\ (Responded /\ route.response.status = 200) => route.encoded # "none"

\* A two-row request with one image: the canvas is lower than configured and
\* the overlays, y = 1.0, are anchored on its bottom edge.
C26_Witness ==
    /\ pc = "encoded"
    /\ route.entry = "POST"
    /\ route.options.rows = 2 /\ route.options.height = DefaultSize
    /\ Len(images) = 1
    /\ canvas.height = 550
    /\ Len(route.textOverlays) = 2
    /\ route.textSvg[1].height = 550
    /\ TextSvgTexts[1].y = 550 /\ TextSvgTexts[1].x = 540

-----------------------------------------------------------------------------
(* Claims about the selection of the grid builder (SpecBuilder) *)

\* C30: after any sequence of select, deselect and drag-reorder operations
\* the selected images have pairwise distinct ids and their order fields are
\* exactly 0..n-1, each equal to the image's index in the list.
C30_OrdersAreIndexes ==
    /\ \A j, k \in 1..Len(images) : j # k => images[j].id # images[k].id
    /\ \A k \in 1..Len(images) : images[k].order = k - 1
    /\ { images[k].order : k \in 1..Len(images) } = 0..(Len(images) - 1)

\* Three images, selected in the order 2, 4, 5 at the earliest, reordered by
\* drags to 5, 2, 4 and renumbered.
C30_Witness ==
    /\ call.fn = "handleDragOver"
    /\ Len(images) = 3
    /\ images[1].id = 5 /\ images[2].id = 2 /\ images[3].id = 4
    /\ images[1].order = 0 /\ images[3].order = 2

-----------------------------------------------------------------------------
(* Claims about concurrent builds (SpecConcurrent) *)

\* What buildGrid computes for (imgs, o) when nothing else runs: the canvas
\* size, the cell positions and the composite list, stated cell by cell.
AloneDimensions(imgs, o) == calculateActualDimensions(o, Len(imgs))

AlonePositions(imgs, o) ==
    calculateCellPositions(adjustOptions(o, AloneDimensions(imgs, o)), Len(imgs))

AloneComposites(imgs, o) ==
    LET sorted == sortByOrder(imgs)
        pos == AlonePositions(imgs, o)
        cellImages ==
            [k \in 1..Len(sorted) |->
                [kind |-> "image",
                 input |-> applyRoundedCorners(sorted[k], pos[k].width,
                               pos[k].height, o.cornerRadius, o.imageFit),
                 left |-> pos[k].x, top |-> pos[k].y]]
        cellBorders ==
            IF o.borderWidth > 0
            THEN [k \in 1..Len(sorted) |->
                     [kind |-> "border",
                      input |-> createCellBorder(pos[k].width, pos[k].height,
                                    o.borderWidth, o.borderColor, o.cornerRadius),
                      left |-> pos[k].x - o.borderWidth,
                      top |-> pos[k].y - o.borderWidth]]
            ELSE <<>>
    IN  cellImages \o cellBorders

\* The result of an invocation: what its caller can observe of the output.
ResultOf(f) ==
    [width |-> f.canvas.width, height |-> f.canvas.height,
     positions |-> f.positions, composites |-> f.allComposites]

\* C27: the result of a build depends only on its own (images, spec): two
\* buildGrid invocations whose steps interleave at their await points each
\* produce the canvas size, cell positions and composite list they produce
\* alone, and identical inputs yield identical results.
C27_RequestScoped ==
    /\ \A b \in Invocations :
           LET f == call.frames[b]
           IN  /\ f.pc # "failed"
               /\ f.pc # "ready" =>
                      /\ f.canvas.width = AloneDimensions(f.images, f.options).width
                      /\ f.canvas.height = AloneDimensions(f.images, f.options).height
                      /\ f.positions = AlonePositions(f.images, f.options)
               /\ f.pc \in {"compositing", "done"} =>
                      f.allComposites = AloneComposites(f.images, f.options)
    /\ (/\ call.frames[1].pc = "done" /\ call.frames[2].pc = "done"
        /\ call.frames[1].images = call.frames[2].images
        /\ call.frames[1].options = call.frames[2].options) =>
           ResultOf(call.frames[1]) = ResultOf(call.frames[2])

\* Both invocations in flight: the first has left its loop and awaits the
\* composite of its two images and two borders while the second, with other
\* inputs, awaits the fitting of its second image.
C27_Witness ==
    /\ call.frames[1].pc = "compositing"
    /\ call.frames[2].pc = "fitting" /\ call.frames[2].i = 1
    /\ call.frames[1].options.borderWidth = 1
    /\ call.frames[2].options.borderWidth = 0
    /\ Len(call.frames[1].images) = 2 /\ Len(call.frames[2].images) = 2
    /\ Len(call.frames[1].allComposites) = 4
    /\ Len(call.lists[2].imageComposites) = 1

====
